---- MODULE Spec2Model ----
(***************************************************************************)
(* DAGExecutor (src/src/lib/serializer.ts): topological scheduling of the  *)
(* steps of a spec, the per-step predicate/tool loop, the concurrency      *)
(* governor and the budget monitor.                                        *)
(*                                                                         *)
(* One execute() call is modelled.  The JavaScript event loop runs one     *)
(* callback at a time, so every action below is one synchronous segment of *)
(* the code: from the resumption of an await up to the next await.         *)
(*                                                                         *)
(* Abstractions: Usage.duration and the console output are left out;       *)
(* cost is counted in whole units; Date.now() is only observed where       *)
(* checkBudget reads it.                                                   *)
(***************************************************************************)
EXTENDS Integers, Sequences, FiniteSets, TLC

\* ---------------------------------------------------------------- bounds
MaxIter == 2        \* largest maxIter a step of the family carries
MaxClock == 1       \* largest value the clock (ms since start) reaches
MaxEvents == 2      \* most StepEvents a logger is handed
MaxJobs == 3        \* most jobs appended to daft:jobs

\* ------------------------------------------------------------- constants
DefaultConcurrency == 4   \* constructor default
ScoreThreshold == 80      \* scoreCheck threshold

Undefined == 0 - 1        \* JavaScript undefined, for numbers
Absent == 0               \* a key that is not in an object

SeedKey == "initial"      \* the stepData key of spec.initial
DagNames == {"A", "B", "C"}
StepNames == DagNames \cup {SeedKey}   \* a step may be named like the seed
Ghost == "ghost"          \* a name that no step carries
Keys == {"analysis", "score"}

\* ------------------------------------------------------------------ data
\* A value of type `any`: an object over Keys, a primitive number, or
\* undefined.
EmptyObj == [obj |-> TRUE, f |-> [k \in Keys |-> Absent], p |-> 0]
Obj(a, s) == [obj |-> TRUE,
              f |-> [k \in Keys |-> IF k = "analysis" THEN a ELSE s],
              p |-> 0]
Prim(n) == [obj |-> FALSE, f |-> [k \in Keys |-> Absent], p |-> n]
UndefData == Prim(Undefined)

\* JavaScript truthiness of a value
Truthy(d) == d.obj \/ (d.p # 0 /\ d.p # Undefined)

\* the patch taken as the new working data
mergeData_Replace(base, update) == update

\* the spread written the other way round: the base wins a collision
mergeData_BaseWins(base, update) ==
  IF base.obj /\ update.obj
  THEN [obj |-> TRUE,
        f |-> [k \in Keys |-> IF base.f[k] # Absent THEN base.f[k]
                                                   ELSE update.f[k]],
        p |-> 0]
  ELSE update

mergeData(base, update) ==
  IF base.obj /\ update.obj
  THEN [obj |-> TRUE,
        f |-> [k \in Keys |-> IF update.f[k] # Absent THEN update.f[k]
                                                     ELSE base.f[k]],
        p |-> 0]
  ELSE update

\* ------------------------------------------------------------ registries
\* The predicate registry handed to the constructor: three of the built-in
\* predicates, and one that fails without giving a reason (msg is
\* optional in a predicate's result).
BuiltinPreds == {"alwaysTrue", "analyzeDone", "scoreCheck"}
PredNames == BuiltinPreds \cup {"noReason"}
MissingPred == "noSuchPredicate"

predicates(name, d) ==
  CASE name = "alwaysTrue" -> [ok |-> TRUE, msg |-> ""]
    [] name = "analyzeDone" ->
         IF d.obj /\ d.f["analysis"] # Absent
         THEN [ok |-> TRUE, msg |-> ""]
         ELSE [ok |-> FALSE, msg |-> "No analysis found in data"]
    [] name = "scoreCheck" ->
         IF ~d.obj \/ d.f["score"] = Absent
         THEN [ok |-> FALSE, msg |-> "Score must be a number"]
         ELSE IF d.f["score"] >= ScoreThreshold
              THEN [ok |-> TRUE, msg |-> ""]
              ELSE [ok |-> FALSE, msg |-> "Score < 80"]
    [] name = "noReason" -> [ok |-> FALSE, msg |-> ""]

\* The tool registry handed to the constructor: what tool.run resolves to.
\* "boom" rejects; "quiet" reports no usage.
ToolNames == {"analyze", "score", "quiet", "boom"}
MissingTool == "noSuchTool"
NoUsage == [tokens |-> Undefined, cost |-> Undefined]

tools(name) ==
  CASE name = "analyze" -> [throws |-> FALSE, output |-> Obj(1, Absent),
                            usage |-> [tokens |-> 1, cost |-> 0]]
    [] name = "score" -> [throws |-> FALSE, output |-> Obj(2, 95),
                          usage |-> [tokens |-> 0, cost |-> 2]]
    [] name = "quiet" -> [throws |-> FALSE, output |-> EmptyObj,
                          usage |-> NoUsage]
    [] name = "boom" -> [throws |-> TRUE, output |-> EmptyObj,
                         usage |-> NoUsage]

ToolFailed == "tool failed"

\* ----------------------------------------------------------------- specs
NoBudget == [present |-> FALSE, maxTime |-> Undefined,
             maxTokens |-> Undefined, maxCost |-> Undefined]
Budget(t, k, c) == [present |-> TRUE, maxTime |-> t, maxTokens |-> k,
                    maxCost |-> c]

Step(n, u, m, ts, ds) ==
  [name |-> n, until |-> u, maxIter |-> m, tools |-> ts, dependsOn |-> ds]

\* sequences of length <= 2 over S, without repetition
Lists2(S) == {<<>>} \cup {<<x>> : x \in S}
             \cup {<<x, y>> : x, y \in S}
NoRep2(S) == {l \in Lists2(S) : Len(l) = 2 => l[1] # l[2]}

\* One-step specs: every predicate name, iteration cap, tool list,
\* budget with one ceiling, and seed.
ceilings == {0, 1}
BudgetChoices ==
  {NoBudget}
  \cup {Budget(t, Undefined, Undefined) : t \in ceilings}
  \cup {Budget(Undefined, k, Undefined) : k \in ceilings}
  \cup {Budget(Undefined, Undefined, c) : c \in ceilings}
InitialChoices == {EmptyObj, Obj(1, Absent), Prim(0)}

SingleStepSpecs ==
  {[initial |-> i,
    steps |-> <<Step("A", u, m, ts, <<>>)>>,
    budget |-> b] :
     i \in InitialChoices,
     u \in BuiltinPreds \cup {MissingPred},
     m \in 0..MaxIter,
     ts \in Lists2(ToolNames \cup {MissingTool}),
     b \in BudgetChoices}

\* Three-step specs: every dependsOn list of up to two names (a step's own
\* name and an unknown name included), the steps listed as A, B, C whatever
\* their dependencies, and two step bodies.
DepChoices == NoRep2(DagNames) \cup {<<Ghost>>}
Bodies == {[until |-> "analyzeDone", maxIter |-> MaxIter,
            tools |-> <<"analyze">>],
           [until |-> "scoreCheck", maxIter |-> 1,
            tools |-> <<"score", "analyze">>]}
DagBudgets == {NoBudget, Budget(Undefined, Undefined, 1)}

DagSpecs ==
  {[initial |-> EmptyObj,
    steps |-> <<Step("A", ba.until, ba.maxIter, ba.tools, da),
                Step("B", bb.until, bb.maxIter, bb.tools, db),
                Step("C", bc.until, bc.maxIter, bc.tools, dc)>>,
    budget |-> b] :
     da \in DepChoices, db \in DepChoices, dc \in DepChoices,
     ba \in Bodies, bb \in Bodies, bc \in Bodies,
     b \in DagBudgets}

\* Three-step specs with faults: A without dependencies, B and C on the
\* steps before them, every step with one of five bodies (unregistered
\* predicate, throwing tool after a patch, unregistered tool after a
\* registered one, and two sound bodies whose outputs collide on a key).
FaultBodies ==
  {[until |-> MissingPred, maxIter |-> 1, tools |-> <<"analyze">>],
   [until |-> "scoreCheck", maxIter |-> 1, tools |-> <<"analyze", "boom">>],
   [until |-> "scoreCheck", maxIter |-> 1,
    tools |-> <<"analyze", MissingTool>>],
   [until |-> "analyzeDone", maxIter |-> MaxIter, tools |-> <<"analyze">>],
   [until |-> "scoreCheck", maxIter |-> 1, tools |-> <<"score">>]}
FaultDepsB == {<<>>, <<"A">>}
FaultDepsC == {<<>>, <<"A">>, <<"A", "B">>, <<"B", "A">>}

FaultSpecs ==
  {[initial |-> EmptyObj,
    steps |-> <<Step("A", ba.until, ba.maxIter, ba.tools, <<>>),
                Step("B", bb.until, bb.maxIter, bb.tools, db),
                Step("C", bc.until, bc.maxIter, bc.tools, dc)>>,
    budget |-> NoBudget] :
     db \in FaultDepsB, dc \in FaultDepsC,
     ba \in FaultBodies, bb \in FaultBodies, bc \in FaultBodies}

\* Two-step specs whose first step is named like the seed key, the second
\* with or without a dependency on it, over the bodies of the fault family
\* and two bodies whose predicate the tool never satisfies, one with a
\* predicate that gives no reason.
UnmetBody == [until |-> "scoreCheck", maxIter |-> MaxIter,
              tools |-> <<"analyze">>]
NoReasonBody == [until |-> "noReason", maxIter |-> MaxIter,
                 tools |-> <<"analyze">>]
SeedBodies == FaultBodies \cup {UnmetBody, NoReasonBody}

SeedNameSpecs ==
  {[initial |-> EmptyObj,
    steps |-> <<Step(SeedKey, bi.until, bi.maxIter, bi.tools, <<>>),
                Step("A", ba.until, ba.maxIter, ba.tools, da)>>,
    budget |-> NoBudget] :
     da \in {<<>>, <<SeedKey>>}, bi \in SeedBodies, ba \in SeedBodies}

ConcurrencyChoices == {1, DefaultConcurrency}

\* ------------------------------------------------------------- variables
VARIABLES
  spec,              \* the Spec handed to execute()
  concurrencySlots,  \* DAGExecutor.concurrencySlots
  running,           \* DAGExecutor.running
  stepData,          \* DAGExecutor.stepData (UndefData: no entry)
  execPc,            \* where execute() is
  execError,         \* the error execute() threw ("" if none)
  inDegree, graph, queue, topologicalOrder,   \* locals of topoSort
  pc,                \* where each step's executeStep is
  currentData, iteration, toolIdx, stepUsage, \* locals of executeStep
  totalUsage,        \* execute()'s totalUsage
  stepResults,       \* execute()'s stepResults, in insertion order
  now,               \* Date.now() - startTime when checkBudget last used it
  result,            \* the Result execute() returned
  startData,         \* history: what getCurrentData returned to the step
  toolCalls,         \* history: tool.run calls made by the step
  predEvaluated,     \* history: steps whose predicate has been evaluated
  overAt,            \* history: toolCalls of the step when one of its tool
                     \* calls first left the usage over a ceiling
  loggerSteps,       \* WideEventLogger.steps of the injected logger
  event,             \* WideEventLogger.event
  emitted,           \* WideEventLogger.emitted
  alwaysEmit,        \* process.env.DAFT_ALWAYS_EMIT === 'true'
  emission,          \* history: runs of finalize() to its end, events printed
  cli,               \* where main() of the submit or run-local CLI is
  redis,             \* the streams daft:jobs, daft:results, daft:errors
  worker             \* where the loop of the worker is

topoVars == <<inDegree, graph, queue, topologicalOrder>>
stepVars == <<pc, currentData, iteration, toolIdx, stepUsage, startData,
              toolCalls, predEvaluated, overAt, loggerSteps>>
vars == <<spec, concurrencySlots, running, stepData, execPc, execError,
          inDegree, graph, queue, topologicalOrder, pc, currentData,
          iteration, toolIdx, stepUsage, totalUsage, stepResults, now,
          result, startData, toolCalls, predEvaluated, overAt, loggerSteps,
          event, emitted, alwaysEmit, emission, cli, redis, worker>>

\* the logger's event, the CLI and the worker with its streams: what the
\* executor does not touch
hostVars == <<event, emitted, alwaysEmit, emission, cli, redis, worker>>

\* the executor: what the logger's emit, the CLI and the worker do not touch
\* but through execute() and addStep
executorVars == <<spec, concurrencySlots, running, stepData, execPc,
                  execError, topoVars, pc, currentData, iteration, toolIdx,
                  stepUsage, totalUsage, stepResults, now, result, startData,
                  toolCalls, predEvaluated, overAt>>

\* event.execution before setExecutionMode, event.usage before setUsage
NoExecution == [present |-> FALSE, mode |-> "", outcome |-> "",
                duration_ms |-> 0, total_iterations |-> 0]
NoEventUsage == [present |-> FALSE, cost_usd |-> 0]

\* the event after the constructor (initializeBase sets neither execution,
\* usage nor error)
NewEvent == [execution |-> NoExecution, usage |-> NoEventUsage,
             error |-> FALSE]
NoEmission == [finalized |-> 0, printed |-> 0]

NoCli == [program |-> "", pc |-> "off", fault |-> "", success |-> FALSE,
          exitCode |-> 0 - 1]
NoMessage == [id |-> 0, spec |-> ""]
\* `during` is history: where the worker was when each job was appended
EmptyRedis == [last |-> 0, jobs |-> {}, results |-> <<>>, errors |-> <<>>,
               during |-> <<>>]
NoWorker == [pc |-> "off", cursor |-> 0, message |-> NoMessage,
             threw |-> FALSE]

\* a logger just constructed; no CLI and no worker running
HostIdle ==
  /\ event = NewEvent
  /\ emitted = FALSE
  /\ alwaysEmit = FALSE
  /\ emission = NoEmission
  /\ cli = NoCli
  /\ redis = EmptyRedis
  /\ worker = NoWorker

DataKeys == StepNames \cup {SeedKey}
ZeroUsage == [tokens |-> 0, cost |-> 0]
NoResult == [success |-> FALSE, data |-> UndefData, steps |-> <<>>,
             usage |-> ZeroUsage]

\* ------------------------------------------------------------- topoSort
RECURSIVE Flatten(_)
Flatten(ss) == IF ss = <<>> THEN <<>> ELSE Head(ss) \o Flatten(Tail(ss))

NameSet(steps) == {steps[i].name : i \in DOMAIN steps}

\* the (dep, step) pairs in the order the second loop of topoSort meets them
DepEdges(steps) ==
  Flatten([i \in DOMAIN steps |->
            [j \in DOMAIN steps[i].dependsOn |->
              [dep |-> steps[i].dependsOn[j], to |-> steps[i].name]]])

\* the unknown-dependency test left out of the graph-building loop
UnknownDeps_Unchecked(steps) == <<>>

UnknownDeps(steps) ==
  SelectSeq(DepEdges(steps), LAMBDA e : e.dep \notin NameSet(steps))

BuildGraph(steps) ==
  [n \in NameSet(steps) |->
     LET es == SelectSeq(DepEdges(steps), LAMBDA e : e.dep = n)
     IN [i \in DOMAIN es |-> es[i].to]]

BuildInDegree(steps) ==
  [n \in NameSet(steps) |->
     Len(SelectSeq(DepEdges(steps), LAMBDA e : e.to = n))]

\* new Map(steps.map(s => [s.name, s])).get(n): the last step of that name
stepMap(steps, n) ==
  steps[CHOOSE i \in DOMAIN steps :
          /\ steps[i].name = n
          /\ \A j \in DOMAIN steps : j > i => steps[j].name # n]

\* key order of the inDegree Map: names by first appearance
RECURSIVE NameOrder(_, _)
NameOrder(steps, seen) ==
  IF steps = <<>> THEN <<>>
  ELSE IF Head(steps).name \in seen
       THEN NameOrder(Tail(steps), seen)
       ELSE <<Head(steps).name>>
            \o NameOrder(Tail(steps), seen \cup {Head(steps).name})

InitialQueue(steps, deg) ==
  LET zero == SelectSeq(NameOrder(steps, {}), LAMBDA n : deg[n] = 0)
  IN [i \in DOMAIN zero |-> stepMap(steps, zero[i])]

\* a dependent enqueued while one of its dependencies is still outstanding
Ready_Early(d) == d <= 1

\* does a dependent whose in-degree became d enter the queue?
Ready(d) == d = 0

\* the inner for loop of the sort: decrement every dependent of the
\* extracted step, enqueue those that became ready
RECURSIVE Visit(_, _, _, _)
Visit(steps, deg, q, dependents) ==
  IF dependents = <<>> THEN [deg |-> deg, q |-> q]
  ELSE LET d == Head(dependents)
           newDegree == deg[d] - 1
       IN Visit(steps, [deg EXCEPT ![d] = newDegree],
                IF Ready(newDegree) THEN Append(q, stepMap(steps, d)) ELSE q,
                Tail(dependents))

\* the length test left out
SortComplete_Skipped(sorted, steps) == TRUE

\* the final test of topoSort
SortComplete(sorted, steps) == Len(sorted) = Len(steps)

UnknownDependency(dep) == "Unknown dependency: " \o dep
CircularDependency == "Circular dependency detected in steps"

\* ------------------------------------------------------------------ Init
Init ==
  /\ spec \in SingleStepSpecs \cup DagSpecs \cup FaultSpecs
                \cup SeedNameSpecs
  /\ concurrencySlots \in ConcurrencyChoices
  /\ running = 0
  /\ stepData = [k \in DataKeys |-> UndefData]
  /\ execPc = "start"
  /\ execError = ""
  /\ inDegree = <<>>
  /\ graph = <<>>
  /\ queue = <<>>
  /\ topologicalOrder = <<>>
  /\ pc = [s \in StepNames |-> "idle"]
  /\ currentData = [s \in StepNames |-> UndefData]
  /\ iteration = [s \in StepNames |-> 0]
  /\ toolIdx = [s \in StepNames |-> 0]
  /\ stepUsage = [s \in StepNames |-> ZeroUsage]
  /\ totalUsage = ZeroUsage
  /\ stepResults = <<>>
  /\ now = 0
  /\ result = NoResult
  /\ startData = [s \in StepNames |-> UndefData]
  /\ toolCalls = [s \in StepNames |-> 0]
  /\ predEvaluated = {}
  /\ overAt = [s \in StepNames |-> 0]
  /\ loggerSteps = <<>>
  /\ HostIdle

\* ------------------------------------------- execute(): graph and order
\* execute() up to the graph-building loops of topoSort (lines 101-108,
\* 291-317): the unknown-dependency error, or the graph and first queue.
BuildOrder ==
  /\ execPc = "start"
  /\ stepData' = [k \in DataKeys |->
                    IF k = SeedKey THEN spec.initial ELSE UndefData]
  /\ \E unknown \in {UnknownDeps(spec.steps)} :
       IF unknown # <<>>
       THEN /\ execPc' = "threw"
            /\ execError' = UnknownDependency(Head(unknown).dep)
            /\ UNCHANGED topoVars
       ELSE \E deg \in {BuildInDegree(spec.steps)} :
              /\ execPc' = "sorting"
              /\ inDegree' = deg
              /\ graph' = BuildGraph(spec.steps)
              /\ queue' = InitialQueue(spec.steps, deg)
              /\ UNCHANGED <<execError, topologicalOrder>>
  /\ UNCHANGED <<hostVars, spec, concurrencySlots, running, stepVars, totalUsage,
                 stepResults, now, result>>

\* one turn of the while loop of topoSort (lines 319-330)
Extract ==
  /\ execPc = "sorting"
  /\ queue # <<>>
  /\ \E current \in {Head(queue)} :
     \E v \in {Visit(spec.steps, inDegree, Tail(queue),
                     graph[current.name])} :
        /\ topologicalOrder' = Append(topologicalOrder, current)
        /\ inDegree' = v.deg
        /\ queue' = v.q
  /\ UNCHANGED <<hostVars, spec, concurrencySlots, running, stepData, execPc,
                 execError, graph, stepVars, totalUsage, stepResults, now,
                 result>>

\* the end of topoSort (lines 332-336)
FinishSort ==
  /\ execPc = "sorting"
  /\ queue = <<>>
  /\ IF SortComplete(topologicalOrder, spec.steps)
     THEN execPc' = "sorted" /\ UNCHANGED execError
     ELSE execPc' = "threw" /\ execError' = CircularDependency
  /\ UNCHANGED <<hostVars, spec, concurrencySlots, running, stepData, topoVars,
                 stepVars, totalUsage, stepResults, now, result>>

\* ------------------------------------------------------- Budget Monitor
\* `budget.maxX && ...`: the ceiling as a JavaScript condition
Configured(ceiling) == ceiling # Undefined /\ ceiling # 0

TimeExceeded == "Budget exceeded: time limit"
TokensExceeded == "Budget exceeded: token limit"
CostExceeded == "Budget exceeded: cost limit"

\* does checkBudget compare the elapsed time it computed with a ceiling?
\* (Otherwise the clock value it read is not recorded.)
UsesClock(budget) == budget.present /\ Configured(budget.maxTime)

\* checkBudget: the message of the error it throws, "" when it returns
checkBudget(budget, usage, elapsed) ==
  IF ~budget.present THEN ""
  ELSE IF Configured(budget.maxTime) /\ elapsed > budget.maxTime
       THEN TimeExceeded
  ELSE IF Configured(budget.maxTokens) /\ usage.tokens > budget.maxTokens
       THEN TokensExceeded
  ELSE IF Configured(budget.maxCost) /\ usage.cost > budget.maxCost
       THEN CostExceeded
  ELSE ""

\* ---------------------------------------------------------- Step Runner
Pos(n) ==
  IF \E i \in DOMAIN topologicalOrder : topologicalOrder[i].name = n
  THEN CHOOSE i \in DOMAIN topologicalOrder : topologicalOrder[i].name = n
  ELSE 0

StepOf(n) == topologicalOrder[Pos(n)]
Launched == {topologicalOrder[i].name : i \in DOMAIN topologicalOrder}

\* The dependencies getCurrentData awaits: those with an entry in
\* stepPromises when it looks them up.  The lookups before the first await
\* run inside the launch loop of execute(), where only the steps earlier in
\* the order have an entry; the later ones run after the loop.
RECURSIVE Awaited(_, _, _)
Awaited(step, i, sync) ==
  IF i > Len(step.dependsOn) THEN {}
  ELSE LET d == step.dependsOn[i]
           has == IF sync THEN Pos(d) # 0 /\ Pos(d) < Pos(step.name)
                          ELSE d \in Launched
       IN (IF has THEN {d} ELSE {}) \cup Awaited(step, i + 1, sync /\ ~has)

\* getCurrentData awaiting every step launched before this one
DepsSettled_Prefix(step) ==
  \A i \in 1..(Pos(step.name) - 1) : pc[topologicalOrder[i].name] = "settled"

\* getCurrentData not awaiting the promises of the dependencies
DepsSettled_NoWait(step) == TRUE

DepsSettled(step) == \A d \in Awaited(step, 1, TRUE) : pc[d] = "settled"

\* the merge loop of getCurrentData
RECURSIVE MergeDeps(_, _, _)
MergeDeps(deps, data, merged) ==
  IF deps = <<>> THEN merged
  ELSE MergeDeps(Tail(deps), data,
                 IF Head(deps) \in DOMAIN data /\ data[Head(deps)] # UndefData
                 THEN mergeData(merged, data[Head(deps)])
                 ELSE merged)

\* stepData.get('initial') || {}
InitialOrEmpty(d) == IF Truthy(d) THEN d ELSE EmptyObj

UnknownPredicate(name) == "Unknown predicate: " \o name
UnknownTool(name) == "Unknown tool: " \o name
\* the generic message without the iteration count
FailedAfter_NoCount(n) == "Failed"

FailedAfter(n) == "Failed after " \o ToString(n) \o " iterations"

NoStepResult == [name |-> "", iterations |-> 0, success |-> FALSE,
                 error |-> "", usage |-> NoUsage]

\* the catch block dropping the message of the error
Caught_NoMessage(step, it, usage, msg) ==
  [name |-> step.name, iterations |-> it, success |-> FALSE, error |-> "",
   usage |-> usage]

\* the StepResult of the catch block of executeStep
Caught(step, it, usage, msg) ==
  [name |-> step.name, iterations |-> it, success |-> FALSE, error |-> msg,
   usage |-> usage]

\* the .catch handler recording the step as done
Rejected_AsSuccess(step, msg) ==
  [name |-> step.name, iterations |-> 0, success |-> TRUE, error |-> msg,
   usage |-> NoUsage]

\* the StepResult of the .catch handler of execute() (lines 117-124)
Rejected(step, msg) ==
  [name |-> step.name, iterations |-> 0, success |-> FALSE, error |-> msg,
   usage |-> NoUsage]

\* the final predicate check left out: the loop exit taken as success
FinalResult_Optimistic(step, data, it, usage) ==
  [name |-> step.name, iterations |-> it, success |-> TRUE, error |-> "",
   usage |-> usage]

\* the StepResult after the final predicate check (lines 204-257)
FinalResult(step, data, it, usage) ==
  LET finalCheck == predicates(step.until, data)
  IN [name |-> step.name, iterations |-> it, success |-> finalCheck.ok,
      error |-> IF finalCheck.ok THEN ""
                ELSE IF finalCheck.msg # "" THEN finalCheck.msg
                ELSE FailedAfter(it),
      usage |-> usage]

\* Where a synchronous segment of executeStep ends: the next await ("tool",
\* "slot") or the settlement, with what it did on the way.
Outcome(next, data, it, idx, publish, res, called, clock) ==
  [next |-> next, data |-> data, it |-> it, idx |-> idx,
   publish |-> publish, res |-> res, called |-> called, clock |-> clock]

Finish(step, data, it, usage, clock) ==
  Outcome("settled", data, it, 0, TRUE, FinalResult(step, data, it, usage),
          FALSE, clock)

\* lines 177-183 for the idx-th tool of the iteration
CallTool(step, data, it, usage, idx, publish) ==
  IF step.tools[idx] \notin ToolNames
  THEN Outcome("settled", data, it, idx, publish,
               Caught(step, it, usage, UnknownTool(step.tools[idx])),
               FALSE, FALSE)
  ELSE Outcome("tool", data, it, idx, publish, NoStepResult, TRUE, FALSE)

\* lines 194-198: publish, count the iteration, check the budget, ask for
\* a slot
EndIteration(step, budget, data, it, usage, total, elapsed) ==
  LET err == checkBudget(budget, total, elapsed)
  IN IF err # ""
     THEN Outcome("settled", data, it + 1, 0, TRUE,
                  Caught(step, it + 1, usage, err), FALSE,
                  UsesClock(budget))
     ELSE Outcome("slot", data, it + 1, 0, TRUE, NoStepResult, FALSE,
                  UsesClock(budget))

\* the while condition off by one
WillIterate_OffByOne(step, data, it) ==
  it <= step.maxIter /\ ~predicates(step.until, data).ok

\* the loop entered without the predicate check at its top
WillIterate_NoPrecheck(step, data, it) == it < step.maxIter

\* the while condition and the check at the top of the loop body
WillIterate(step, data, it) ==
  it < step.maxIter /\ ~predicates(step.until, data).ok

\* from the top of the while loop (line 167) to the next await
LoopHead(step, budget, data, it, usage, total, elapsed) ==
  IF WillIterate(step, data, it)
  THEN IF step.tools # <<>>
       THEN CallTool(step, data, it, usage, 1, FALSE)
       ELSE EndIteration(step, budget, data, it, usage, total, elapsed)
  ELSE Finish(step, data, it, usage, FALSE)

\* the for loop over step.tools left after its first tool
AfterTool_FirstOnly(step, budget, data, it, usage, total, elapsed, idx) ==
  EndIteration(step, budget, data, it, usage, total, elapsed)

\* after a tool resolved (lines 184-198): the next tool or the end of the
\* iteration
AfterTool(step, budget, data, it, usage, total, elapsed, idx) ==
  IF idx < Len(step.tools)
  THEN CallTool(step, data, it, usage, idx + 1, FALSE)
  ELSE EndIteration(step, budget, data, it, usage, total, elapsed)

\* after the slot was released (lines 200-202), then the loop again
AfterSlot(step, budget, data, it, usage, total, elapsed) ==
  IF predicates(step.until, data).ok
  THEN Finish(step, data, it, usage, FALSE)
  ELSE LoopHead(step, budget, data, it, usage, total, elapsed)

\* tokens/cost strictly over a ceiling the caller set
Over(budget, usage) ==
  /\ budget.present
  /\ \/ budget.maxTokens # Undefined /\ usage.tokens > budget.maxTokens
     \/ budget.maxCost # Undefined /\ usage.cost > budget.maxCost

\* `=` written for `+=`: the total replaced by what the tool reported
AddUsage_Overwritten(u, reported) ==
  IF reported = NoUsage THEN u
  ELSE [tokens |-> IF reported.tokens = Undefined THEN 0
                   ELSE reported.tokens,
        cost |-> IF reported.cost = Undefined THEN 0 ELSE reported.cost]

\* the increment lost
AddUsage_Lost(u, reported) == u

AddUsage(u, reported) ==
  IF reported = NoUsage THEN u
  ELSE [tokens |-> u.tokens + (IF reported.tokens = Undefined THEN 0
                               ELSE reported.tokens),
        cost |-> u.cost + (IF reported.cost = Undefined THEN 0
                           ELSE reported.cost)]

\* what logger.addStep receives at the three exits of executeStep (lines
\* 209-226, 237-250, 261-278), as far as the StepResult has it too
StepEvent(res) ==
  [name |-> res.name, iterations |-> res.iterations,
   success |-> res.success]

\* the state after a segment of step s that ended as outcome out; r is the
\* number of held slots the segment found
Apply(s, out, r, e) ==
  \E o \in {out} :
    /\ pc' = [pc EXCEPT ![s] =
                IF o.next = "slot"
                THEN (IF r >= concurrencySlots THEN "slot_poll"
                                              ELSE "slot_held")
                ELSE o.next]
    /\ running' = IF o.next = "slot" /\ r < concurrencySlots THEN r + 1
                  ELSE r
    /\ currentData' = [currentData EXCEPT ![s] = o.data]
    /\ iteration' = [iteration EXCEPT ![s] = o.it]
    /\ toolIdx' = [toolIdx EXCEPT ![s] = o.idx]
    /\ stepData' = IF o.publish THEN [stepData EXCEPT ![s] = o.data]
                   ELSE stepData
    /\ stepResults' = IF o.next = "settled" THEN Append(stepResults, o.res)
                      ELSE stepResults
    /\ toolCalls' = [toolCalls EXCEPT
                       ![s] = @ + (IF o.called THEN 1 ELSE 0)]
    /\ loggerSteps' = IF o.next = "settled"
                      THEN Append(loggerSteps, StepEvent(o.res))
                      ELSE loggerSteps
    /\ now' = IF o.clock THEN e ELSE now
    /\ (~o.clock => e = now)

\* the launch loop of execute() (lines 109-127): every executeStep runs up
\* to its first await, inside getCurrentData
Launch ==
  /\ execPc = "sorted"
  /\ execPc' = "running"
  /\ pc' = [s \in StepNames |-> IF s \in Launched THEN "deps" ELSE pc[s]]
  /\ currentData' =
       [s \in StepNames |->
          IF s \in Launched /\ StepOf(s).dependsOn = <<>>
          THEN InitialOrEmpty(stepData[SeedKey])
          ELSE currentData[s]]
  /\ UNCHANGED <<hostVars, spec, concurrencySlots, running, stepData, execError,
                 topoVars, iteration, toolIdx, stepUsage, totalUsage,
                 stepResults, now, result, startData, toolCalls,
                 predEvaluated, overAt, loggerSteps>>

\* executeStep resumes with its starting data (lines 158-183)
StartStep(s) ==
  /\ execPc = "running"
  /\ pc[s] = "deps"
  /\ DepsSettled(StepOf(s))
  /\ \E step \in {StepOf(s)} :
     \E data \in {IF step.dependsOn # <<>>
                  THEN MergeDeps(step.dependsOn, stepData, EmptyObj)
                  ELSE currentData[s]} :
        /\ startData' = [startData EXCEPT ![s] = data]
        /\ IF step.until \notin PredNames
           THEN \* thrown outside the try: the .catch handler of execute()
                /\ pc' = [pc EXCEPT ![s] = "settled"]
                /\ currentData' = [currentData EXCEPT ![s] = data]
                /\ stepResults' =
                     Append(stepResults,
                            Rejected(step, UnknownPredicate(step.until)))
                /\ UNCHANGED <<running, iteration, toolIdx, stepData,
                               toolCalls, now, predEvaluated, loggerSteps>>
           ELSE /\ \E e \in now..MaxClock :
                     Apply(s, LoopHead(step, spec.budget, data, 0,
                                       stepUsage[s], totalUsage, e),
                           running, e)
                /\ predEvaluated' = predEvaluated \cup {s}
  /\ UNCHANGED <<hostVars, spec, concurrencySlots, execPc, execError, topoVars,
                 stepUsage, totalUsage, result, overAt>>

\* tool.run settles (lines 183-198, or the catch block)
ToolReturn(s) ==
  /\ execPc = "running"
  /\ pc[s] = "tool"
  /\ \E step \in {StepOf(s)} :
     \E tool \in {tools(step.tools[toolIdx[s]])} :
       IF tool.throws
       THEN /\ Apply(s, Outcome("settled", currentData[s], iteration[s],
                                toolIdx[s], FALSE,
                                Caught(step, iteration[s], stepUsage[s],
                                       ToolFailed), FALSE, FALSE),
                     running, now)
            /\ UNCHANGED <<stepUsage, totalUsage, overAt>>
       ELSE \E data \in {mergeData(currentData[s], tool.output)} :
            \E su \in {AddUsage(stepUsage[s], tool.usage)} :
            \E tu \in {AddUsage(totalUsage, tool.usage)} :
              /\ stepUsage' = [stepUsage EXCEPT ![s] = su]
              /\ totalUsage' = tu
              /\ overAt' = [overAt EXCEPT ![s] =
                              IF @ = 0 /\ ~Over(spec.budget, totalUsage)
                                 /\ Over(spec.budget, tu)
                              THEN toolCalls[s] ELSE @]
              /\ \E e \in now..MaxClock :
                   Apply(s, AfterTool(step, spec.budget, data, iteration[s],
                                      su, tu, e, toolIdx[s]),
                         running, e)
  /\ UNCHANGED <<hostVars, spec, concurrencySlots, execPc, execError, topoVars,
                 result, startData, predEvaluated>>

\* waitForConcurrencySlot: a poll finds a free slot (lines 340-347)
SlotAcquire(s) ==
  /\ execPc = "running"
  /\ pc[s] = "slot_poll"
  /\ running < concurrencySlots
  /\ running' = running + 1
  /\ pc' = [pc EXCEPT ![s] = "slot_held"]
  /\ UNCHANGED <<hostVars, spec, concurrencySlots, stepData, execPc, execError,
                 topoVars, currentData, iteration, toolIdx, stepUsage,
                 totalUsage, stepResults, now, result, startData, toolCalls,
                 predEvaluated, overAt, loggerSteps>>

\* the release timer giving back more than the slot it holds
Released_Twice(r) == r - 2

\* the release timer not giving the slot back
Released_Stuck(r) == r

\* the number of held slots after the release timer of a slot fired
Released(r) == r - 1

\* the release timer fires (lines 344-347) and executeStep goes on
\* (lines 200-202, then the loop)
SlotRelease(s) ==
  /\ execPc = "running"
  /\ pc[s] = "slot_held"
  /\ \E e \in now..MaxClock :
       Apply(s, AfterSlot(StepOf(s), spec.budget, currentData[s],
                          iteration[s], stepUsage[s], totalUsage, e),
             Released(running), e)
  /\ UNCHANGED <<hostVars, spec, concurrencySlots, execPc, execError, topoVars,
                 stepUsage, totalUsage, result, startData, predEvaluated,
                 overAt>>

\* ------------------------------------------------------ result synthesis
RECURSIVE LastSuccessful(_)
LastSuccessful(rs) ==
  IF rs = <<>> THEN NoStepResult
  ELSE IF rs[Len(rs)].success THEN rs[Len(rs)]
  ELSE LastSuccessful(SubSeq(rs, 1, Len(rs) - 1))

getFinalData(rs, data) ==
  LET lastSuccessful == LastSuccessful(rs)
  IN IF lastSuccessful # NoStepResult /\ lastSuccessful.name # SeedKey
     THEN data[lastSuccessful.name]
     ELSE data[SeedKey]

\* `some` written for `every`
allSuccessful_Some(rs) == \E i \in DOMAIN rs : rs[i].success

\* Array.from(stepResults.values()).every(r => r.success)
allSuccessful(rs) == \A i \in DOMAIN rs : rs[i].success

\* Promise.race written for Promise.all
AllSettled_Any == \E s \in Launched : pc[s] = "settled"

\* await Promise.all(stepPromises.values()) resolves
AllSettled == \A s \in Launched : pc[s] = "settled"

\* Promise.all resolved: the Result (lines 129-145)
Return ==
  /\ execPc = "running"
  /\ AllSettled
  /\ execPc' = "returned"
  /\ result' = [success |-> allSuccessful(stepResults),
                data |-> getFinalData(stepResults, stepData),
                steps |-> stepResults,
                usage |-> totalUsage]
  /\ UNCHANGED <<hostVars, spec, concurrencySlots, running, stepData, execError,
                 topoVars, stepVars, totalUsage, stepResults, now>>

Next ==
  \/ BuildOrder
  \/ Extract
  \/ FinishSort
  \/ Launch
  \/ \E s \in StepNames : StartStep(s)
  \/ \E s \in StepNames : ToolReturn(s)
  \/ \E s \in StepNames : SlotAcquire(s)
  \/ \E s \in StepNames : SlotRelease(s)
  \/ Return

Spec == Init /\ [][Next]_vars

\* the event loop runs a callback or timer that is ready
FairSpec == Spec /\ WF_vars(Next)

\* ------------------------------------------- checkBudget on its own
\* checkBudget applied to every budget over the ceilings, every usage and
\* every elapsed time of the bounds.
AllCeilings == {Undefined, 0, 1}
AllBudgets ==
  {NoBudget}
  \cup {Budget(t, k, c) : t \in AllCeilings, k \in AllCeilings,
                          c \in AllCeilings}

InitBudget ==
  /\ spec \in {[initial |-> EmptyObj, steps |-> <<>>, budget |-> b] :
                 b \in AllBudgets}
  /\ totalUsage \in [tokens : 0..MaxIter, cost : 0..MaxIter]
  /\ now \in 0..MaxClock
  /\ execPc = "check"
  /\ concurrencySlots = DefaultConcurrency
  /\ running = 0
  /\ stepData = [k \in DataKeys |-> UndefData]
  /\ execError = ""
  /\ inDegree = <<>>
  /\ graph = <<>>
  /\ queue = <<>>
  /\ topologicalOrder = <<>>
  /\ pc = [s \in StepNames |-> "idle"]
  /\ currentData = [s \in StepNames |-> UndefData]
  /\ iteration = [s \in StepNames |-> 0]
  /\ toolIdx = [s \in StepNames |-> 0]
  /\ stepUsage = [s \in StepNames |-> ZeroUsage]
  /\ stepResults = <<>>
  /\ result = NoResult
  /\ startData = [s \in StepNames |-> UndefData]
  /\ toolCalls = [s \in StepNames |-> 0]
  /\ predEvaluated = {}
  /\ overAt = [s \in StepNames |-> 0]
  /\ loggerSteps = <<>>
  /\ HostIdle

CheckBudgetCall ==
  /\ execPc = "check"
  /\ execPc' = "checked"
  /\ execError' = checkBudget(spec.budget, totalUsage, now)
  /\ UNCHANGED <<hostVars, spec, concurrencySlots, running, stepData, topoVars,
                 stepVars, totalUsage, stepResults, now, result>>

SpecBudget == InitBudget /\ [][CheckBudgetCall]_vars

\* ------------------------------------- a second execute() on the instance
\* Three-step specs without faults and without a budget: A and B without
\* dependencies, C on A or on A and B.
ReentrantSpecs ==
  {[initial |-> i,
    steps |-> <<Step("A", "analyzeDone", MaxIter, <<"analyze">>, <<>>),
                Step("B", bb.until, bb.maxIter, bb.tools, <<>>),
                Step("C", bc.until, bc.maxIter, bc.tools, dc)>>,
    budget |-> NoBudget] :
     i \in {EmptyObj, Obj(1, Absent)},
     bb \in Bodies, bc \in Bodies, dc \in {<<"A">>, <<"A", "B">>}}

InitReentrant ==
  /\ spec \in ReentrantSpecs
  /\ concurrencySlots \in ConcurrencyChoices
  /\ running = 0
  /\ stepData = [k \in DataKeys |-> UndefData]
  /\ execPc = "start"
  /\ execError = ""
  /\ inDegree = <<>>
  /\ graph = <<>>
  /\ queue = <<>>
  /\ topologicalOrder = <<>>
  /\ pc = [s \in StepNames |-> "idle"]
  /\ currentData = [s \in StepNames |-> UndefData]
  /\ iteration = [s \in StepNames |-> 0]
  /\ toolIdx = [s \in StepNames |-> 0]
  /\ stepUsage = [s \in StepNames |-> ZeroUsage]
  /\ totalUsage = ZeroUsage
  /\ stepResults = <<>>
  /\ now = 0
  /\ result = NoResult
  /\ startData = [s \in StepNames |-> UndefData]
  /\ toolCalls = [s \in StepNames |-> 0]
  /\ predEvaluated = {}
  /\ overAt = [s \in StepNames |-> 0]
  /\ loggerSteps = <<>>
  /\ HostIdle

\* execute({initial, steps: []}) called on the same instance while the
\* first call awaits its steps: lines 105-106 on the shared stepData; the
\* sort of no steps, the empty launch loop and Promise.all of nothing touch
\* no field of the instance, and the totals and results are locals of the
\* call.
SecondExecute(initial) ==
  /\ execPc = "running"
  /\ stepData' = [k \in DataKeys |->
                    IF k = SeedKey THEN initial ELSE UndefData]
  /\ UNCHANGED <<hostVars, spec, concurrencySlots, running, execPc, execError,
                 topoVars, stepVars, totalUsage, stepResults, now, result>>

NextReentrant ==
  \/ Next
  \/ \E initial \in InitialChoices : SecondExecute(initial)

SpecReentrant == InitReentrant /\ [][NextReentrant]_vars

\* ------------------------------------------------- topoSort on its own
\* topoSort applied to every list of one to three steps over two names
\* (so a name may occur twice), each step without dependencies or
\* depending on one name, which may be its own or one no step carries.
SortNames == {"A", "B"}
SortDeps == {<<>>, <<"A">>, <<"B">>, <<Ghost>>}
SortSteps == {Step(n, "alwaysTrue", 1, <<>>, d) : n \in SortNames,
                                                 d \in SortDeps}
SortLists ==
  {<<x>> : x \in SortSteps}
  \cup {<<x, y>> : x, y \in SortSteps}
  \cup {<<x, y, z>> : x, y, z \in SortSteps}

InitSort ==
  /\ spec \in {[initial |-> EmptyObj, steps |-> l, budget |-> NoBudget] :
                 l \in SortLists}
  /\ concurrencySlots = DefaultConcurrency
  /\ running = 0
  /\ stepData = [k \in DataKeys |-> UndefData]
  /\ execPc = "start"
  /\ execError = ""
  /\ inDegree = <<>>
  /\ graph = <<>>
  /\ queue = <<>>
  /\ topologicalOrder = <<>>
  /\ pc = [s \in StepNames |-> "idle"]
  /\ currentData = [s \in StepNames |-> UndefData]
  /\ iteration = [s \in StepNames |-> 0]
  /\ toolIdx = [s \in StepNames |-> 0]
  /\ stepUsage = [s \in StepNames |-> ZeroUsage]
  /\ totalUsage = ZeroUsage
  /\ stepResults = <<>>
  /\ now = 0
  /\ result = NoResult
  /\ startData = [s \in StepNames |-> UndefData]
  /\ toolCalls = [s \in StepNames |-> 0]
  /\ predEvaluated = {}
  /\ overAt = [s \in StepNames |-> 0]
  /\ loggerSteps = <<>>
  /\ HostIdle

NextSort == BuildOrder \/ Extract \/ FinishSort

SpecSort == InitSort /\ [][NextSort]_vars

\* ------------------------------------------------------ WideEventLogger
\* no executor at work: the state of the executor's variables in the
\* specifications of the logger, the CLI and the worker
ExecutorIdle ==
  /\ spec = [initial |-> EmptyObj, steps |-> <<>>, budget |-> NoBudget]
  /\ concurrencySlots = DefaultConcurrency
  /\ running = 0
  /\ stepData = [k \in DataKeys |-> UndefData]
  /\ execPc = "off"
  /\ execError = ""
  /\ inDegree = <<>>
  /\ graph = <<>>
  /\ queue = <<>>
  /\ topologicalOrder = <<>>
  /\ pc = [s \in StepNames |-> "idle"]
  /\ currentData = [s \in StepNames |-> UndefData]
  /\ iteration = [s \in StepNames |-> 0]
  /\ toolIdx = [s \in StepNames |-> 0]
  /\ stepUsage = [s \in StepNames |-> ZeroUsage]
  /\ totalUsage = ZeroUsage
  /\ stepResults = <<>>
  /\ now = 0
  /\ result = NoResult
  /\ startData = [s \in StepNames |-> UndefData]
  /\ toolCalls = [s \in StepNames |-> 0]
  /\ predEvaluated = {}
  /\ overAt = [s \in StepNames |-> 0]

\* shouldEmit: `duration > 5000`, and `cost > 0.01` with the cost counted in
\* hundredths of a dollar
DurationFloor == 5000
CostFloor == 1

\* the StepEvents handed to addStep: a quick success, a slow failure, a
\* costly success and a plain failure
EventChoices ==
  {[name |-> "A", iterations |-> 1, success |-> TRUE, duration_ms |-> 0,
    cost_usd |-> 0],
   [name |-> "B", iterations |-> 2, success |-> FALSE,
    duration_ms |-> DurationFloor + 1000, cost_usd |-> 0],
   [name |-> "C", iterations |-> 1, success |-> TRUE, duration_ms |-> 0,
    cost_usd |-> CostFloor + 1],
   [name |-> "D", iterations |-> 1, success |-> FALSE, duration_ms |-> 0,
    cost_usd |-> 0]}
EventLists ==
  {l \in {<<>>} \cup {<<x>> : x \in EventChoices}
         \cup {<<x, y>> : x, y \in EventChoices} : Len(l) <= MaxEvents}

Outcomes == {"success", "error", "budget_exceeded", "partial"}
Modes == {"local", "distributed"}

setExecutionMode(ev, mode) ==
  IF ~ev.execution.present
  THEN [ev EXCEPT !.execution =
          [present |-> TRUE, mode |-> mode, outcome |-> "success",
           duration_ms |-> 0, total_iterations |-> 0]]
  ELSE [ev EXCEPT !.execution.mode = mode]

\* setError: the error is stored, then `this.event.execution!.outcome` is
\* assigned, a TypeError when execution is undefined
setError(ev) ==
  [threw |-> ~ev.execution.present,
   event |-> IF ev.execution.present
             THEN [ev EXCEPT !.error = TRUE, !.execution.outcome = "error"]
             ELSE [ev EXCEPT !.error = TRUE]]

setOutcome(ev, outcome) ==
  IF ev.execution.present THEN [ev EXCEPT !.execution.outcome = outcome]
  ELSE ev

setUsage(ev, cost) == [ev EXCEPT !.usage = [present |-> TRUE,
                                            cost_usd |-> cost]]

RECURSIVE SumField(_, _)
SumField(steps, field) ==
  IF steps = <<>> THEN 0
  ELSE Head(steps)[field] + SumField(Tail(steps), field)

\* finalize: the totals of the steps; the last two assignments throw a
\* TypeError when execution is undefined
finalize(ev, steps) ==
  LET e1 == IF ev.execution.present
            THEN [ev EXCEPT
                    !.execution.total_iterations =
                       SumField(steps, "iterations"),
                    !.execution.duration_ms =
                       SumField(steps, "duration_ms")]
            ELSE ev
      e2 == IF ~e1.usage.present
            THEN setUsage(e1, SumField(steps, "cost_usd"))
            ELSE e1
  IN [threw |-> ~ev.execution.present, event |-> e2]

\* every event sampled, failures included
shouldEmit_Sampled(ev, env, random) == env \/ random

\* shouldEmit; random is `Math.random() < 0.5`
shouldEmit(ev, env, random) ==
  IF ~ev.execution.present THEN TRUE
  ELSE \/ env
       \/ ev.execution.outcome # "success"
       \/ ev.execution.duration_ms > DurationFloor
       \/ (ev.usage.present /\ ev.usage.cost_usd > CostFloor)
       \/ random

\* emit(): what it leaves behind, whether it threw, and how many events it
\* finalized and printed
emit(ev, em, env, steps, random) ==
  IF em
  THEN [threw |-> FALSE, event |-> ev, emitted |-> TRUE, finalized |-> 0,
        printed |-> 0]
  ELSE LET f == finalize(ev, steps)
       IN IF f.threw
          THEN [threw |-> TRUE, event |-> f.event, emitted |-> FALSE,
                finalized |-> 0, printed |-> 0]
          ELSE [threw |-> FALSE, event |-> f.event, emitted |-> TRUE,
                finalized |-> 1,
                printed |-> IF shouldEmit(f.event, env, random) THEN 1
                            ELSE 0]

\* the logger after emit() returned or threw
Emitted(r) ==
  /\ event' = r.event
  /\ emitted' = r.emitted
  /\ emission' = [finalized |-> emission.finalized + r.finalized,
                  printed |-> emission.printed + r.printed]

\* One logger, its methods called in any order by its owner.
InitLogger ==
  /\ ExecutorIdle
  /\ loggerSteps = <<>>
  /\ HostIdle

SetExecutionMode(mode) ==
  /\ event' = setExecutionMode(event, mode)
  /\ UNCHANGED <<executorVars, loggerSteps, emitted, alwaysEmit, emission,
                 cli, redis, worker>>

AddStep(step) ==
  /\ Len(loggerSteps) < MaxEvents
  /\ loggerSteps' = Append(loggerSteps, step)
  /\ UNCHANGED <<executorVars, hostVars>>

SetUsage(cost) ==
  /\ event' = setUsage(event, cost)
  /\ UNCHANGED <<executorVars, loggerSteps, emitted, alwaysEmit, emission,
                 cli, redis, worker>>

\* setError called by an owner that catches what it throws
SetError ==
  /\ event' = setError(event).event
  /\ UNCHANGED <<executorVars, loggerSteps, emitted, alwaysEmit, emission,
                 cli, redis, worker>>

SetOutcome(outcome) ==
  /\ event' = setOutcome(event, outcome)
  /\ UNCHANGED <<executorVars, loggerSteps, emitted, alwaysEmit, emission,
                 cli, redis, worker>>

Emit ==
  /\ \E random \in BOOLEAN :
       Emitted(emit(event, emitted, alwaysEmit, loggerSteps, random))
  /\ UNCHANGED <<executorVars, loggerSteps, alwaysEmit, cli, redis, worker>>

\* emitAlways: the variable is set, emit() runs, the variable is deleted
\* unless emit() threw
EmitAlways ==
  /\ \E r \in {emit(event, emitted, TRUE, loggerSteps, FALSE)} :
       /\ Emitted(r)
       /\ alwaysEmit' = r.threw
  /\ UNCHANGED <<executorVars, loggerSteps, cli, redis, worker>>

NextLogger ==
  \/ \E mode \in Modes : SetExecutionMode(mode)
  \/ \E step \in EventChoices : AddStep(step)
  \/ \E cost \in {0, CostFloor + 1} : SetUsage(cost)
  \/ SetError
  \/ \E outcome \in Outcomes : SetOutcome(outcome)
  \/ Emit
  \/ EmitAlways

SpecLogger == InitLogger /\ [][NextLogger]_vars

\* ------------------------------------------- the submit and run-local CLI
\* main() of a CLI called with a spec path, from the creation of its logger
\* on.  What the try block met first: nothing, or a failing import
\* ("load"), a default export that is no spec ("shape"), an unregistered
\* predicate or tool ("validate"), a failing xAdd ("redis"), a missing or
\* malformed data file ("data"), a step list execute() rejects ("sort").
SubmitFaults == {"", "load", "validate", "redis"}
RunLocalFaults == {"", "load", "shape", "data", "sort"}

InitCli ==
  /\ ExecutorIdle
  /\ loggerSteps = <<>>
  /\ event = NewEvent
  /\ emitted = FALSE
  /\ alwaysEmit \in BOOLEAN
  /\ emission = NoEmission
  /\ cli \in {[program |-> p, pc |-> "try", fault |-> "", success |-> FALSE,
               exitCode |-> Undefined] : p \in {"submit", "run-local"}}
  /\ redis = EmptyRedis
  /\ worker = NoWorker

\* the try block of submit (part_009 lines 26-56): to its end, or to what
\* it throws
SubmitTry ==
  /\ cli.program = "submit"
  /\ cli.pc = "try"
  /\ \E fault \in SubmitFaults :
       IF fault # ""
       THEN /\ cli' = [cli EXCEPT !.pc = "catch", !.fault = fault]
            /\ UNCHANGED <<event, emitted, emission, redis>>
       ELSE /\ redis' = [redis EXCEPT
                           !.last = @ + 1,
                           !.jobs = @ \cup {[id |-> redis.last + 1,
                                             spec |-> "valid"]},
                           !.during = Append(@, worker.pc)]
            /\ \E random \in BOOLEAN :
                 Emitted(emit(setExecutionMode(event, "distributed"),
                              emitted, alwaysEmit, loggerSteps, random))
            /\ cli' = [cli EXCEPT !.pc = "returned"]
  /\ UNCHANGED <<executorVars, loggerSteps, alwaysEmit, worker>>

\* the try block of run-local up to execute() (part_010 lines 23-54)
RunLocalLoad ==
  /\ cli.program = "run-local"
  /\ cli.pc = "try"
  /\ \E fault \in RunLocalFaults \ {"sort"} :
       CASE fault \in {"load", "shape"} ->
              /\ cli' = [cli EXCEPT !.pc = "catch", !.fault = fault]
              /\ UNCHANGED event
         [] fault = "data" ->
              \* process.exit(1) in the try block
              /\ cli' = [cli EXCEPT !.pc = "exited", !.fault = fault,
                                    !.exitCode = 1]
              /\ event' = setExecutionMode(event, "local")
         [] OTHER ->
              /\ cli' = [cli EXCEPT !.pc = "execute"]
              /\ event' = setExecutionMode(event, "local")
  /\ UNCHANGED <<executorVars, loggerSteps, emitted, alwaysEmit, emission,
                 redis, worker>>

\* `await executor.execute(...)` (part_010 lines 56-60): it throws what
\* topoSort throws, or the executor hands the logger a StepEvent for every
\* step it ran and returns a Result that is a success when every step is
RunLocalExecute ==
  /\ cli.program = "run-local"
  /\ cli.pc = "execute"
  /\ \/ /\ cli' = [cli EXCEPT !.pc = "catch", !.fault = "sort"]
        /\ UNCHANGED loggerSteps
     \/ \E steps \in EventLists :
          /\ loggerSteps' = steps
          /\ cli' = [cli EXCEPT
                       !.pc = "report",
                       !.success = \A i \in DOMAIN steps : steps[i].success]
  /\ UNCHANGED <<executorVars, event, emitted, alwaysEmit, emission, redis,
                 worker>>

\* the rest of the try block (part_010 lines 62-81): setError for a failed
\* Result, emit, process.exit
RunLocalReport ==
  /\ cli.program = "run-local"
  /\ cli.pc = "report"
  /\ \E e \in {IF cli.success THEN [threw |-> FALSE, event |-> event]
               ELSE setError(event)} :
       IF e.threw
       THEN /\ event' = e.event
            /\ cli' = [cli EXCEPT !.pc = "catch", !.fault = "report"]
            /\ UNCHANGED <<emitted, emission>>
       ELSE \E random \in BOOLEAN :
            \E r \in {emit(e.event, emitted, alwaysEmit, loggerSteps,
                           random)} :
              /\ Emitted(r)
              /\ cli' = IF r.threw
                        THEN [cli EXCEPT !.pc = "catch", !.fault = "report"]
                        ELSE [cli EXCEPT
                                !.pc = "exited",
                                !.exitCode = IF cli.success THEN 0 ELSE 1]
  /\ UNCHANGED <<executorVars, loggerSteps, alwaysEmit, redis, worker>>

\* the catch block of either CLI (part_009 lines 57-69, part_010 lines
\* 82-94): setError, emit, process.exit(1); what setError or emit throws
\* leaves main() rejected
CliCatch ==
  /\ cli.pc = "catch"
  /\ \E e \in {setError(event)} :
       IF e.threw
       THEN /\ event' = e.event
            /\ cli' = [cli EXCEPT !.pc = "rejected"]
            /\ UNCHANGED <<emitted, emission>>
       ELSE \E random \in BOOLEAN :
            \E r \in {emit(e.event, emitted, alwaysEmit, loggerSteps,
                           random)} :
              /\ Emitted(r)
              /\ cli' = IF r.threw THEN [cli EXCEPT !.pc = "rejected"]
                        ELSE [cli EXCEPT !.pc = "exited", !.exitCode = 1]
  /\ UNCHANGED <<executorVars, loggerSteps, alwaysEmit, redis, worker>>

NextCli ==
  SubmitTry \/ RunLocalLoad \/ RunLocalExecute \/ RunLocalReport \/ CliCatch

SpecCli == InitCli /\ [][NextCli]_vars

\* ---------------------------------------------------------- the worker
\* What submit appends to daft:jobs: a serialized spec that passed
\* serializeSpec, which checks predicate and tool names and not the
\* dependsOn relation; execute() returns a Result for the one and throws
\* for the other.
JobSpecs == {"valid", "cyclic"}

\* the entries of daft:jobs with an id above the one XREAD was given
Newer(id) == {m \in redis.jobs : m.id > id}

InitWorker ==
  /\ ExecutorIdle
  /\ loggerSteps = <<>>
  /\ event = NewEvent
  /\ emitted = FALSE
  /\ alwaysEmit = FALSE
  /\ emission = NoEmission
  /\ cli = NoCli
  /\ redis = EmptyRedis
  /\ worker = [pc |-> "loop", cursor |-> 0, message |-> NoMessage,
               threw |-> FALSE]

\* a submit process appends a job (part_009 lines 34-40)
SubmitJob(job) ==
  /\ redis.last < MaxJobs
  /\ redis' = [redis EXCEPT
                 !.last = @ + 1,
                 !.jobs = @ \cup {[id |-> redis.last + 1, spec |-> job]},
                 !.during = Append(@, worker.pc)]
  /\ UNCHANGED <<executorVars, loggerSteps, event, emitted, alwaysEmit,
                 emission, cli, worker>>

\* xRead is sent with the id '$': the last id of the stream at that moment
WorkerRead ==
  /\ worker.pc = "loop"
  /\ worker' = [worker EXCEPT !.pc = "blocked", !.cursor = redis.last]
  /\ UNCHANGED <<executorVars, loggerSteps, event, emitted, alwaysEmit,
                 emission, cli, redis>>

\* xRead returns the first entry appended since it was sent (COUNT 1)
WorkerReceive ==
  /\ worker.pc = "blocked"
  /\ Newer(worker.cursor) # {}
  /\ \E m \in Newer(worker.cursor) :
       /\ \A o \in Newer(worker.cursor) : m.id <= o.id
       /\ worker' = [worker EXCEPT !.pc = "processing", !.message = m]
  /\ UNCHANGED <<executorVars, loggerSteps, event, emitted, alwaysEmit,
                 emission, cli, redis>>

\* xRead returns null after BLOCK ms without a new entry: `continue`
WorkerTimeout ==
  /\ worker.pc = "blocked"
  /\ Newer(worker.cursor) = {}
  /\ worker' = [worker EXCEPT !.pc = "loop"]
  /\ UNCHANGED <<executorVars, loggerSteps, event, emitted, alwaysEmit,
                 emission, cli, redis>>

\* part_007 lines 35-56 and 68-77: a logger for the job, execute(), then
\* emit, in the try block or, when execute() threw, after setError in the
\* catch block; a throwing catch block ends in the outer catch (lines
\* 92-95) and the loop goes on
WorkerExecute ==
  /\ worker.pc = "processing"
  /\ \E steps \in {IF worker.message.spec = "valid" THEN <<x>> ELSE <<>> :
                     x \in EventChoices} :
     \E e \in {IF worker.message.spec = "valid"
               THEN [threw |-> FALSE,
                     event |-> setExecutionMode(NewEvent, "distributed")]
               ELSE setError(setExecutionMode(NewEvent, "distributed"))} :
     \E random \in BOOLEAN :
     \E r \in {emit(e.event, FALSE, alwaysEmit, steps, random)} :
       /\ loggerSteps' = steps
       /\ event' = r.event
       /\ emitted' = r.emitted
       /\ emission' = [finalized |-> r.finalized, printed |-> r.printed]
       /\ worker' = [worker EXCEPT
                       !.pc = IF e.threw \/ r.threw THEN "loop" ELSE "record",
                       !.threw = worker.message.spec # "valid"]
  /\ UNCHANGED <<executorVars, alwaysEmit, cli, redis>>

\* xAdd to daft:results (lines 58-63) or daft:errors (lines 79-84)
WorkerRecord ==
  /\ worker.pc = "record"
  /\ redis' = IF worker.threw
              THEN [redis EXCEPT !.errors = Append(@, worker.message.id)]
              ELSE [redis EXCEPT !.results = Append(@, worker.message.id)]
  /\ worker' = [worker EXCEPT !.pc = "delete"]
  /\ UNCHANGED <<executorVars, loggerSteps, event, emitted, alwaysEmit,
                 emission, cli>>

\* xDel (line 65 or 86), and the loop again
WorkerDelete ==
  /\ worker.pc = "delete"
  /\ redis' = [redis EXCEPT !.jobs = {m \in @ : m.id # worker.message.id}]
  /\ worker' = [worker EXCEPT !.pc = "loop"]
  /\ UNCHANGED <<executorVars, loggerSteps, event, emitted, alwaysEmit,
                 emission, cli>>

WorkerLoop ==
  \/ WorkerRead
  \/ WorkerReceive
  \/ WorkerTimeout
  \/ WorkerExecute
  \/ WorkerRecord
  \/ WorkerDelete

NextWorker ==
  \/ \E job \in JobSpecs : SubmitJob(job)
  \/ WorkerLoop

SpecWorker == InitWorker /\ [][NextWorker]_vars

\* the worker's loop keeps running: a reply of Redis, a timeout, a settled
\* promise is taken up
FairWorker == SpecWorker /\ WF_vars(WorkerLoop)

\* ---------------------------------------------------------------- claims
\* the dependsOn relation of the spec, read off the step list
DepNames(n) ==
  UNION {{spec.steps[i].dependsOn[j] : j \in DOMAIN spec.steps[i].dependsOn} :
           i \in {k \in DOMAIN spec.steps : spec.steps[k].name = n}}

RECURSIVE ReachFrom(_, _)
ReachFrom(S, k) ==
  IF k = 0 THEN S
  ELSE ReachFrom(S \cup UNION {DepNames(m) : m \in S}, k - 1)

TransDeps(n) == ReachFrom(DepNames(n), Len(spec.steps))

HasCycle == \E n \in NameSet(spec.steps) : n \in TransDeps(n)
UnknownNames ==
  UNION {DepNames(n) : n \in NameSet(spec.steps)} \ NameSet(spec.steps)
HasUnknown == UnknownNames # {}

NothingRan ==
  /\ predEvaluated = {}
  /\ stepResults = <<>>
  /\ \A s \in StepNames : pc[s] = "idle" /\ toolCalls[s] = 0

Settled(n) == \E i \in DOMAIN stepResults : stepResults[i].name = n

\* C1: execute() called with a spec whose dependsOn relation is acyclic
\* and names only steps of the spec, the steps listed in any order,
\* eventually returns a Result.
C1_Terminates ==
  (execPc = "start" /\ ~HasCycle /\ ~HasUnknown) ~> (execPc = "returned")

C1_Witness ==
  /\ execPc = "returned"
  /\ Len(spec.steps) = 3
  /\ spec.steps[1].dependsOn # <<>>
  /\ \E s \in StepNames : iteration[s] > 0
  /\ concurrencySlots = 1

\* C2 as stated: a spec with a cycle ends in the cycle error, and nothing
\* has run.
C2_Original ==
  HasCycle =>
    /\ NothingRan
    /\ \/ execPc \in {"start", "sorting"}
       \/ execPc = "threw" /\ execError = CircularDependency

\* C2 amended: a spec with a cycle ends in a fatal error and nothing has
\* run; the error is the cycle error when every dependsOn name is known,
\* and the unknown-dependency error when one is not.
C2_CycleIsFatal ==
  HasCycle =>
    /\ NothingRan
    /\ \/ execPc \in {"start", "sorting"}
       \/ /\ execPc = "threw"
          /\ IF HasUnknown
             THEN \E d \in UnknownNames : execError = UnknownDependency(d)
             ELSE execError = CircularDependency

C2_Witness ==
  /\ HasCycle
  /\ execPc = "threw"
  /\ execError = CircularDependency
  /\ topologicalOrder # <<>>

\* C3: an unknown dependsOn name ends execute() in the unknown-dependency
\* error before the sort has extracted or queued a step and before any
\* step has run.
C3_UnknownBeforeSort ==
  (HasUnknown /\ execPc # "start") =>
    /\ execPc = "threw"
    /\ \E d \in UnknownNames : execError = UnknownDependency(d)
    /\ topologicalOrder = <<>>
    /\ queue = <<>>
    /\ NothingRan

C3_Witness ==
  /\ HasUnknown
  /\ execPc = "threw"
  /\ Len(spec.steps) = 3
  /\ spec.steps[1].dependsOn = <<>>

\* C4: for an acyclic step list over known names topoSort returns every
\* step exactly once, each after all the steps it depends on.
C4_TopoOrder ==
  (~HasCycle /\ ~HasUnknown /\ execPc \notin {"start", "sorting"}) =>
    /\ execPc # "threw"
    /\ Len(topologicalOrder) = Len(spec.steps)
    /\ \A i \in DOMAIN spec.steps :
         Cardinality({j \in DOMAIN topologicalOrder :
                        topologicalOrder[j] = spec.steps[i]}) = 1
    /\ \A i \in DOMAIN topologicalOrder :
         \A k \in DOMAIN topologicalOrder[i].dependsOn :
           \E j \in 1..(i - 1) :
             topologicalOrder[j].name = topologicalOrder[i].dependsOn[k]

C4_Witness ==
  /\ execPc = "sorted"
  /\ Len(spec.steps) = 3
  /\ Len(spec.steps[1].dependsOn) = 2

\* C5: a step that has its starting data (and so may evaluate its
\* predicate or call a tool) has the StepResult of each of its
\* dependencies recorded.
C5_DepsSettledFirst ==
  \A s \in StepNames :
    (pc[s] \notin {"idle", "deps"} \/ s \in predEvaluated
     \/ toolCalls[s] > 0) =>
      \A k \in DOMAIN StepOf(s).dependsOn :
        /\ Settled(StepOf(s).dependsOn[k])
        /\ pc[StepOf(s).dependsOn[k]] = "settled"

C5_Witness ==
  \E s \in StepNames :
    /\ pc[s] = "tool"
    /\ Len(StepOf(s).dependsOn) = 2

\* C6 as stated: the steps with a tool call in flight are never more than
\* the concurrency ceiling.
C6_Original ==
  Cardinality({s \in StepNames : pc[s] = "tool"}) <= concurrencySlots

\* C7 as stated: a step whose tool call returns with the usage over a
\* ceiling makes no further tool call.  (Ceilings of zero are left out, so
\* the statement does not rest on how a zero ceiling is read.)
OverNonZero(budget, usage) ==
  /\ budget.present
  /\ \/ budget.maxTokens > 0 /\ usage.tokens > budget.maxTokens
     \/ budget.maxCost > 0 /\ usage.cost > budget.maxCost

C7_Original ==
  [][\A s \in StepNames :
       (pc[s] = "tool" /\ totalUsage' # totalUsage
        /\ OverNonZero(spec.budget, totalUsage')) =>
         toolCalls'[s] = toolCalls[s]]_vars

\* C8 as stated: checkBudget throws exactly when the elapsed time, the
\* tokens or the cost is strictly over a ceiling that is set, zero
\* included.
Exceeds(budget, usage, elapsed) ==
  /\ budget.present
  /\ \/ budget.maxTime # Undefined /\ elapsed > budget.maxTime
     \/ budget.maxTokens # Undefined /\ usage.tokens > budget.maxTokens
     \/ budget.maxCost # Undefined /\ usage.cost > budget.maxCost

C8_Original ==
  execPc = "checked" =>
    (execError # "" <=> Exceeds(spec.budget, totalUsage, now))

\* C9 as stated: a step one of whose tool calls pushed the usage over a
\* ceiling has made no tool call since, and has failed with a budget
\* error; the Result is then a failure.  (Ceilings of zero are left out,
\* as for C7.)
C9_Original ==
  \A s \in StepNames :
    (overAt[s] > 0 /\ OverNonZero(spec.budget, totalUsage)) =>
      /\ toolCalls[s] = overAt[s]
      /\ \E i \in DOMAIN stepResults :
           /\ stepResults[i].name = s
           /\ ~stepResults[i].success
           /\ stepResults[i].error \in
                {TimeExceeded, TokensExceeded, CostExceeded}
      /\ execPc = "returned" => ~result.success

BudgetErrors == {TimeExceeded, TokensExceeded, CostExceeded}

\* the StepResult recorded for step n (NoStepResult when none is)
ResultOf(n) ==
  IF Settled(n)
  THEN stepResults[CHOOSE i \in DOMAIN stepResults : stepResults[i].name = n]
  ELSE NoStepResult

ToolsNeverFail(step) ==
  \A k \in DOMAIN step.tools :
    step.tools[k] \in ToolNames /\ ~tools(step.tools[k]).throws

\* C11: a step with registered tools that never throw, which settled
\* without a budget error and whose predicate does not hold of its final
\* data (so held at none of its checks), has run exactly maxIter
\* iterations and made exactly maxIter * len(tools) tool calls, and its
\* StepResult is a failure with iterations = maxIter.
C11_ExhaustsMaxIter ==
  \A s \in StepNames :
    (/\ pc[s] = "settled"
     /\ StepOf(s).until \in PredNames
     /\ ToolsNeverFail(StepOf(s))
     /\ ResultOf(s).error \notin BudgetErrors
     /\ ~predicates(StepOf(s).until, currentData[s]).ok) =>
      /\ iteration[s] = StepOf(s).maxIter
      /\ toolCalls[s] = StepOf(s).maxIter * Len(StepOf(s).tools)
      /\ ~ResultOf(s).success
      /\ ResultOf(s).iterations = StepOf(s).maxIter

C11_Witness ==
  \E s \in StepNames :
    /\ pc[s] = "settled"
    /\ StepOf(s).until = "scoreCheck"
    /\ StepOf(s).maxIter = MaxIter
    /\ StepOf(s).tools = <<"quiet", "analyze">>
    /\ ~ResultOf(s).success
    /\ ResultOf(s).iterations = MaxIter
    /\ toolCalls[s] = 2 * MaxIter

\* C12 as stated: execute() never ends by throwing; once it has returned,
\* every step of the spec has a StepResult in the Result, and every error
\* is the error field of a failed StepResult.
C12_Original ==
  /\ execPc # "threw"
  /\ execPc = "returned" =>
       /\ \A n \in NameSet(spec.steps) :
            \E i \in DOMAIN result.steps : result.steps[i].name = n
       /\ \A i \in DOMAIN result.steps :
            result.steps[i].error # "" => ~result.steps[i].success

\* C13: a step whose `until` is not a registered predicate settles as soon
\* as it has its starting data, with no iteration, no predicate evaluation
\* and no tool call, as the failed StepResult of the orchestrator's handler
\* (iterations 0, the error naming the predicate); and an execution with
\* such a step still returns, with a StepResult for every step.
UnknownUntil == {s \in Launched : StepOf(s).until \notin PredNames}

C13_UnknownPredicate ==
  /\ [](\A s \in StepNames :
          (pc[s] \notin {"idle", "deps"} /\ s \in UnknownUntil) =>
            /\ pc[s] = "settled"
            /\ iteration[s] = 0
            /\ toolCalls[s] = 0
            /\ s \notin predEvaluated
            /\ ResultOf(s) = [name |-> s, iterations |-> 0,
                              success |-> FALSE,
                              error |-> "Unknown predicate: "
                                          \o StepOf(s).until,
                              usage |-> NoUsage])
  /\ (execPc = "running" /\ UnknownUntil # {})
       ~> (/\ execPc = "returned"
           /\ \A n \in NameSet(spec.steps) :
                \E i \in DOMAIN result.steps : result.steps[i].name = n)

C13_Witness ==
  /\ execPc = "returned"
  /\ Len(spec.steps) = 3
  /\ spec.steps[1].until = MissingPred
  /\ spec.steps[3].dependsOn = <<"A">>
  /\ ~ResultOf("A").success
  /\ ResultOf("C").success
  /\ ResultOf("C").iterations > 0

\* C14 as stated: a step whose tools list holds an unregistered name
\* never invokes a tool, whatever its starting data, and settles as a
\* failed step with the unknown-tool error and no iteration.
UnknownTools(step) ==
  {step.tools[k] : k \in DOMAIN step.tools} \ ToolNames

C14_Original ==
  \A s \in StepNames :
    (/\ pc[s] \notin {"idle", "deps"}
     /\ StepOf(s).until \in PredNames
     /\ UnknownTools(StepOf(s)) # {}) =>
      /\ toolCalls[s] = 0
      /\ pc[s] = "settled"
      /\ ~ResultOf(s).success
      /\ ResultOf(s).iterations = 0
      /\ \E t \in UnknownTools(StepOf(s)) :
           ResultOf(s).error = UnknownTool(t)

\* C15 as stated: a step that failed because a tool threw has its working
\* data at the failure (every patch applied before it included) as its
\* published output, its dependents start from that data, and its
\* StepResult carries the usage it had accumulated.
\* (toolIdx stays on the tool whose call settled the step)
ToolFailure(s) ==
  /\ pc[s] = "settled"
  /\ toolIdx[s] > 0
  /\ StepOf(s).tools[toolIdx[s]] \in ToolNames
  /\ tools(StepOf(s).tools[toolIdx[s]]).throws

C15_Original ==
  \A s \in StepNames :
    ToolFailure(s) =>
      /\ stepData[s] = currentData[s]
      /\ ResultOf(s).usage = stepUsage[s]
      /\ \A d \in StepNames :
           (pc[d] \notin {"idle", "deps"} /\ StepOf(d).dependsOn = <<s>>) =>
             startData[d] = mergeData(EmptyObj, currentData[s])

\* executeStep as one function of the step and its starting data, with no
\* other step running and no budget error: the tools of one iteration
\* from the idx-th on ...
RECURSIVE RunTools(_, _, _, _)
RunTools(step, data, usage, idx) ==
  IF idx > Len(step.tools) THEN [err |-> "", data |-> data, usage |-> usage]
  ELSE IF step.tools[idx] \notin ToolNames
       THEN [err |-> UnknownTool(step.tools[idx]), data |-> data,
             usage |-> usage]
  ELSE IF tools(step.tools[idx]).throws
       THEN [err |-> ToolFailed, data |-> data, usage |-> usage]
  ELSE RunTools(step, mergeData(data, tools(step.tools[idx]).output),
                AddUsage(usage, tools(step.tools[idx]).usage), idx + 1)

\* ... and the loop: the StepResult and the published output (out)
RECURSIVE RunLoop(_, _, _, _, _)
RunLoop(step, data, it, usage, out) ==
  IF WillIterate(step, data, it)
  THEN LET r == RunTools(step, data, usage, 1)
       IN IF r.err # ""
          THEN [res |-> Caught(step, it, r.usage, r.err), out |-> out]
          ELSE IF predicates(step.until, r.data).ok
               THEN [res |-> FinalResult(step, r.data, it + 1, r.usage),
                     out |-> r.data]
               ELSE RunLoop(step, r.data, it + 1, r.usage, r.data)
  ELSE [res |-> FinalResult(step, data, it, usage), out |-> data]

\* What step n yields when every step runs from the outputs of its
\* dependencies alone: a function of n and of the steps n transitively
\* depends on, and of nothing else.
RECURSIVE Expected(_)
Expected(n) ==
  LET step == stepMap(spec.steps, n)
      deps == {step.dependsOn[k] : k \in DOMAIN step.dependsOn}
      start == IF step.dependsOn = <<>>
               THEN InitialOrEmpty(spec.initial)
               ELSE MergeDeps(step.dependsOn,
                              [d \in deps |-> Expected(d).out], EmptyObj)
  IN IF step.until \notin PredNames
     THEN [res |-> Rejected(step, UnknownPredicate(step.until)),
           out |-> UndefData]
     ELSE RunLoop(step, start, 0, ZeroUsage, UndefData)

NoBudgetError(S) == \A n \in S : ResultOf(n).error \notin BudgetErrors

\* C16: a step S one of whose tools threw is failed with the tool's error
\* message, at the iteration and with the usage it had reached; the
\* failing call is its last tool call (no retry, no further tool); and
\* every settled step that does not transitively depend on S has, budget
\* errors apart, the StepResult that its own definition and those of its
\* dependencies determine, which S cannot influence.
C16_FailureIsLocal ==
  /\ [](\A s \in StepNames :
          ToolFailure(s) =>
            /\ ResultOf(s) = [name |-> s, iterations |-> iteration[s],
                              success |-> FALSE, error |-> ToolFailed,
                              usage |-> stepUsage[s]]
            /\ toolCalls[s] =
                 iteration[s] * Len(StepOf(s).tools) + toolIdx[s]
            /\ \A t \in StepNames \ {s} :
                 (/\ pc[t] = "settled"
                  /\ s \notin TransDeps(t)
                  /\ NoBudgetError(TransDeps(t) \cup {t})) =>
                   ResultOf(t) = Expected(t).res)
  /\ [][\A s \in StepNames :
          ToolFailure(s) =>
            toolCalls'[s] = toolCalls[s] /\ pc'[s] = "settled"]_vars

C16_Witness ==
  /\ execPc = "returned"
  /\ Len(spec.steps) = 3
  /\ ToolFailure("A")
  /\ toolCalls["A"] = 2
  /\ spec.steps[2].dependsOn = <<"A">>
  /\ spec.steps[3].dependsOn = <<>>
  /\ ResultOf("C").success
  /\ ResultOf("C").iterations > 0
  /\ stepResults[1].name = "C"

\* the value of key k in the published output of the last dependency of
\* the list that has the key
LastWith(deps, k) ==
  LET has == {i \in DOMAIN deps : /\ stepData[deps[i]] # UndefData
                                  /\ stepData[deps[i]].f[k] # Absent}
  IN IF has = {} THEN Absent
     ELSE stepData[deps[CHOOSE i \in has : \A j \in has : j <= i]].f[k]

\* C17: the starting data of a step with dependencies is an object that
\* holds, for every key, the value of the last dependency in dependsOn
\* order whose published output has the key (and no other key), in
\* whichever order the dependencies settled.
C17_MergeInDependsOnOrder ==
  \A s \in StepNames :
    (pc[s] \notin {"idle", "deps"} /\ StepOf(s).dependsOn # <<>>) =>
      /\ startData[s].obj
      /\ \A k \in Keys :
           startData[s].f[k] = LastWith(StepOf(s).dependsOn, k)

\* X = {analysis: 1}, Y = {analysis: 2, score: 95}, dependsOn [X, Y],
\* Y settled first
C17_Witness ==
  /\ pc["C"] = "settled"
  /\ StepOf("C").dependsOn = <<"A", "B">>
  /\ stepData["A"] = Obj(1, Absent)
  /\ stepData["B"] = Obj(2, 95)
  /\ startData["C"] = Obj(2, 95)
  /\ stepResults[1].name = "B"

\* C18: the Result execute() returns has success = TRUE exactly when every
\* step of the spec has a StepResult with success = TRUE in it.
C18_SuccessIsConjunction ==
  execPc = "returned" =>
    (result.success <=>
       \A n \in NameSet(spec.steps) :
         \E i \in DOMAIN result.steps :
           result.steps[i].name = n /\ result.steps[i].success)

\* two steps succeeded, one failed
C18_Witness ==
  /\ execPc = "returned"
  /\ Len(result.steps) = 3
  /\ Cardinality({i \in DOMAIN result.steps : result.steps[i].success}) = 2
  /\ ~result.success

\* C19 as stated: Result.data is the published output of the step that
\* succeeded last in settlement order, and spec.initial when no step
\* succeeded, whatever the steps are named.
C19_Original ==
  execPc = "returned" =>
    LET ok == {i \in DOMAIN result.steps : result.steps[i].success}
    IN result.data =
         IF ok = {} THEN spec.initial
         ELSE stepData[result.steps[CHOOSE i \in ok :
                                      \A j \in ok : j <= i].name]

\* The final data when the steps settle in topological order: the
\* execution in which, of any two independent steps, the one sorted first
\* finishes first.
InOrderData ==
  getFinalData([i \in DOMAIN topologicalOrder |->
                  Expected(topologicalOrder[i].name).res],
               [k \in DataKeys |->
                  IF k \in Launched /\ Expected(k).out # UndefData
                  THEN Expected(k).out
                  ELSE IF k = SeedKey THEN spec.initial ELSE UndefData])

\* C20 as stated: the Result of a spec (without a budget) is the same in
\* whichever order its independent steps finish; so it is the Result of
\* the execution in which they finish in topological order: the same
\* StepResult for every step, the same success flag, the same final data.
C20_Original ==
  (execPc = "returned" /\ ~spec.budget.present) =>
    /\ \A n \in NameSet(spec.steps) : ResultOf(n) = Expected(n).res
    /\ result.success = \A n \in NameSet(spec.steps) : Expected(n).res.success
    /\ result.data = InOrderData

\* the usage reported by the first n tools of the list, each called once
RECURSIVE UsageOf(_, _)
UsageOf(ts, n) ==
  IF n = 0 THEN ZeroUsage
  ELSE LET u == tools(ts[n]).usage
           rest == UsageOf(ts, n - 1)
       IN [tokens |-> rest.tokens + (IF u.tokens = Undefined THEN 0
                                     ELSE u.tokens),
           cost |-> rest.cost + (IF u.cost = Undefined THEN 0 ELSE u.cost)]

\* The usage the tool calls of step s that have returned so far reported:
\* every tool once per completed iteration, and the tools before toolIdx
\* of the iteration under way (toolIdx is the call in flight, or the call
\* or lookup that ended the step).
ReportedBy(s) ==
  IF pc[s] \in {"idle", "deps"} THEN ZeroUsage
  ELSE LET ts == StepOf(s).tools
           whole == UsageOf(ts, IF iteration[s] > 0 THEN Len(ts) ELSE 0)
           part == UsageOf(ts, IF toolIdx[s] > 0 THEN toolIdx[s] - 1 ELSE 0)
       IN [tokens |-> iteration[s] * whole.tokens + part.tokens,
           cost |-> iteration[s] * whole.cost + part.cost]

RECURSIVE SumOver(_, _, _)
SumOver(S, f, field) ==
  IF S = {} THEN 0
  ELSE LET x == CHOOSE y \in S : TRUE
       IN f[x][field] + SumOver(S \ {x}, f, field)

\* C21: at every point of an execution the global token and cost totals
\* equal the sum of the usage reported by the tool calls that have
\* returned, which equals the sum of the step-local accumulators.
C21_NoLostUpdate ==
  \A field \in {"tokens", "cost"} :
    /\ totalUsage[field] = SumOver(StepNames, stepUsage, field)
    /\ totalUsage[field] =
         SumOver(StepNames, [s \in StepNames |-> ReportedBy(s)], field)

\* two steps with a tool call in flight, each with usage already counted
C21_Witness ==
  \E s, t \in StepNames :
    /\ s # t
    /\ pc[s] = "tool" /\ pc[t] = "tool"
    /\ stepUsage[s].tokens > 0 /\ stepUsage[t].tokens > 0
    /\ totalUsage.tokens > stepUsage[s].tokens

\* C22 as stated: the entry of a step in the map of step outputs is
\* written at the settlement of the step and not before: a step that has
\* not settled has no entry, and an entry only changes in the segment that
\* settles its step.
C22_Original ==
  /\ [](\A s \in DagNames : stepData[s] # UndefData => pc[s] = "settled")
  /\ [][\A s \in DagNames :
          stepData'[s] # stepData[s] =>
            pc[s] # "settled" /\ pc'[s] = "settled"]_vars

\* C23: the Result execute() returns lists exactly one StepResult for
\* every step of the spec, however the step ended.
C23_OneResultPerStep ==
  execPc = "returned" =>
    /\ Len(result.steps) = Len(spec.steps)
    /\ \A i \in DOMAIN spec.steps :
         Cardinality({j \in DOMAIN result.steps :
                        result.steps[j].name = spec.steps[i].name}) = 1

\* one step succeeded, one had a tool throw, one had an unknown predicate
C23_Witness ==
  /\ execPc = "returned"
  /\ Len(result.steps) = 3
  /\ \E i, j, k \in DOMAIN result.steps :
       /\ result.steps[i].success
       /\ result.steps[j].error = ToolFailed
       /\ result.steps[k].error = UnknownPredicate(MissingPred)

\* C24 as stated: a step with dependencies that has its starting data has
\* every dependency settled, failed or not, goes on to evaluate its own
\* predicate, and starts from the merge of the working data its
\* dependencies had when they settled.  (Specs with a step named like the
\* seed key are left out.)
C24_Original ==
  \A t \in StepNames :
    (/\ SeedKey \notin NameSet(spec.steps)
     /\ pc[t] \notin {"idle", "deps"}
     /\ StepOf(t).dependsOn # <<>>
     /\ StepOf(t).until \in PredNames) =>
      /\ \A k \in DOMAIN StepOf(t).dependsOn :
           pc[StepOf(t).dependsOn[k]] = "settled"
      /\ t \in predEvaluated
      /\ startData[t] = MergeDeps(StepOf(t).dependsOn, currentData, EmptyObj)

\* C25 as stated: Result.steps lists the StepResults in the topological
\* order of the steps, a step never before one it depends on, whichever
\* independent step finished first.
C25_Original ==
  execPc = "returned" =>
    /\ \A i, j \in DOMAIN result.steps :
         result.steps[j].name \in DepNames(result.steps[i].name) => j < i
    /\ [i \in DOMAIN result.steps |-> result.steps[i].name]
         = [i \in DOMAIN topologicalOrder |-> topologicalOrder[i].name]

\* C26 as stated: every settled step has reported exactly one step event
\* to the logger, with the name, the iteration count and the success flag
\* of its StepResult, however the step ended; a step that has not settled
\* has reported none.
EventsOf(n) == {i \in DOMAIN loggerSteps : loggerSteps[i].name = n}

C26_Original ==
  \A s \in StepNames :
    IF pc[s] = "settled"
    THEN /\ Cardinality(EventsOf(s)) = 1
         /\ \A i \in EventsOf(s) : loggerSteps[i] = StepEvent(ResultOf(s))
    ELSE EventsOf(s) = {}

\* the tool calls of step s that have returned, in the order they were
\* made when the tools run one after the other in listed order:
\* iteration[s] passes over the list and the tools before the one in flight
RECURSIVE Passes(_, _)
Passes(ts, n) == IF n = 0 THEN <<>> ELSE ts \o Passes(ts, n - 1)

Returned(s) ==
  Passes(StepOf(s).tools, iteration[s])
    \o SubSeq(StepOf(s).tools, 1, toolIdx[s] - 1)

\* the value of key k after those calls: the patch of the last call that
\* has the key, else the starting value
PatchedValue(s, k) ==
  LET calls == Returned(s)
      has == {i \in DOMAIN calls : tools(calls[i]).output.f[k] # Absent}
  IN IF has = {} THEN startData[s].f[k]
     ELSE tools(calls[CHOOSE i \in has : \A j \in has : j <= i]).output.f[k]

\* C27: a step has at most one tool call in flight, made in listed order
\* (the call in flight is the toolIdx-th of its iteration and every call
\* before it has returned), and the tool in flight was handed the working
\* data that holds the patches of all the calls before it, those of the
\* same iteration included, a later patch winning a key.
C27_SequentialTools ==
  \A s \in StepNames :
    pc[s] = "tool" =>
      /\ toolIdx[s] \in DOMAIN StepOf(s).tools
      /\ toolCalls[s] = Len(Returned(s)) + 1
      /\ currentData[s].obj
      /\ \A k \in Keys : currentData[s].f[k] = PatchedValue(s, k)

\* the second tool of the list in flight, the patch of the first in its
\* input
C27_Witness ==
  \E s \in StepNames :
    /\ pc[s] = "tool"
    /\ StepOf(s).tools = <<"score", "analyze">>
    /\ toolIdx[s] = 2
    /\ startData[s] = EmptyObj
    /\ currentData[s] = Obj(2, 95)

\* the step left its loop and went through the final check: it settled
\* with a registered predicate, not on a tool call or lookup, and without
\* a budget error
EndedByCheck(s) ==
  /\ pc[s] = "settled"
  /\ StepOf(s).until \in PredNames
  /\ toolIdx[s] = 0
  /\ ResultOf(s).error \notin BudgetErrors

\* C28: a step that ended without a tool error, a budget breach or a
\* configuration error has published its working data, and is reported
\* successful exactly when its predicate holds of that output; and every
\* step reported successful, however it ended, has a published output of
\* which its predicate holds.
C28_SuccessIffPredicate ==
  \A s \in StepNames :
    /\ EndedByCheck(s) =>
         /\ stepData[s] = currentData[s]
         /\ ResultOf(s).success
              <=> predicates(StepOf(s).until, stepData[s]).ok
    /\ (pc[s] = "settled" /\ ResultOf(s).success) =>
         /\ StepOf(s).until \in PredNames
         /\ stepData[s] # UndefData
         /\ predicates(StepOf(s).until, stepData[s]).ok

\* one step succeeded after iterating, another exhausted its iterations
C28_Witness ==
  \E s, t \in StepNames :
    /\ EndedByCheck(s) /\ EndedByCheck(t)
    /\ ResultOf(s).success /\ ResultOf(s).iterations > 0
    /\ ~predicates(StepOf(s).until, startData[s]).ok
    /\ ~ResultOf(t).success /\ ResultOf(t).iterations = MaxIter

\* step s has completed an iteration (it waits for its slot) and its
\* predicate holds of the working data
SatisfiedAfterIteration(s) ==
  /\ pc[s] \in {"slot_poll", "slot_held"}
  /\ predicates(StepOf(s).until, currentData[s]).ok

\* C29: a step never counts more than maxIter iterations nor makes more
\* than maxIter * len(tools) tool calls; a step whose predicate holds
\* after an iteration (no error, no budget breach) makes no further tool
\* call and starts no further iteration; and a step that went through
\* the final check with its predicate satisfied is a success whose
\* iterations are the iterations it ran, its tool calls those of these
\* iterations.
C29_BoundedAndEarlyExit ==
  /\ [](\A s \in StepNames :
          pc[s] \notin {"idle", "deps"} =>
            /\ iteration[s] <= StepOf(s).maxIter
            /\ toolCalls[s] <= StepOf(s).maxIter * Len(StepOf(s).tools)
            /\ (EndedByCheck(s)
                /\ predicates(StepOf(s).until, currentData[s]).ok) =>
                 /\ ResultOf(s).success
                 /\ ResultOf(s).iterations = iteration[s]
                 /\ toolCalls[s] = iteration[s] * Len(StepOf(s).tools))
  /\ [][\A s \in StepNames :
          SatisfiedAfterIteration(s) =>
            /\ toolCalls'[s] = toolCalls[s]
            /\ iteration'[s] = iteration[s]
            /\ pc'[s] \in {"slot_poll", "slot_held", "settled"}]_vars

\* satisfied after the first of MaxIter iterations, two tools
C29_Witness ==
  \E s \in StepNames :
    /\ EndedByCheck(s)
    /\ StepOf(s).maxIter = MaxIter
    /\ Len(StepOf(s).tools) = 2
    /\ ~predicates(StepOf(s).until, startData[s]).ok
    /\ ResultOf(s).success
    /\ ResultOf(s).iterations = 1
    /\ toolCalls[s] = 2

\* C30: a step that ran maxIter iterations and whose predicate does not
\* hold of its final working data (no tool error, no budget error) has a
\* StepResult returned by its runner (it carries the step's usage): a
\* failure with iterations = maxIter whose error is the reason the
\* predicate gives for that data, or, when it gives none, the generic
\* message with the iteration count.
C30_ExhaustionReason ==
  \A s \in StepNames :
    (/\ EndedByCheck(s)
     /\ iteration[s] = StepOf(s).maxIter
     /\ ~predicates(StepOf(s).until, currentData[s]).ok) =>
      LET reason == predicates(StepOf(s).until, currentData[s]).msg
      IN ResultOf(s) =
           [name |-> s, iterations |-> StepOf(s).maxIter, success |-> FALSE,
            error |-> IF reason # "" THEN reason
                      ELSE "Failed after " \o ToString(StepOf(s).maxIter)
                             \o " iterations",
            usage |-> stepUsage[s]]

\* one step failed with the reason of its predicate, another with the
\* generic message
C30_Witness ==
  \E s, t \in StepNames :
    /\ EndedByCheck(s) /\ EndedByCheck(t)
    /\ StepOf(s).until = "scoreCheck" /\ iteration[s] = MaxIter
    /\ ResultOf(s).error = "Score must be a number"
    /\ StepOf(t).until = "noReason" /\ iteration[t] = MaxIter
    /\ ~ResultOf(t).success

\* C31: a step blocks only on the steps named in its own dependsOn: once
\* every one of them has settled, the step can start, whatever the steps
\* placed before it in the topological order are doing.
C31_BlocksOnDepsOnly ==
  \A s \in StepNames :
    (/\ execPc = "running"
     /\ pc[s] = "deps"
     /\ \A k \in DOMAIN StepOf(s).dependsOn :
          StepOf(s).dependsOn[k] \in Launched
          /\ pc[StepOf(s).dependsOn[k]] = "settled")
    => ENABLED StartStep(s)

\* a step with dependencies awaits its tool while a step placed before it
\* in the order, on which it does not depend, has not settled
C31_Witness ==
  \E s, t \in StepNames :
    /\ execPc = "running"
    /\ Pos(s) # 0 /\ Pos(s) < Pos(t)
    /\ s \notin TransDeps(t)
    /\ pc[s] \in {"deps", "tool", "slot_poll", "slot_held"}
    /\ StepOf(t).dependsOn # <<>>
    /\ pc[t] = "tool"

\* C32: accumulated usage is monotone: no step of the execution lowers the
\* token or cost total of a step or of the whole run.
C32_UsageMonotone ==
  [][/\ totalUsage'.tokens >= totalUsage.tokens
     /\ totalUsage'.cost >= totalUsage.cost
     /\ \A s \in StepNames :
          /\ stepUsage'[s].tokens >= stepUsage[s].tokens
          /\ stepUsage'[s].cost >= stepUsage[s].cost]_vars

\* a step has accumulated the usage of several tool calls, one of which
\* reported no tokens and one no cost
C32_Witness ==
  \E s \in StepNames :
    /\ toolCalls[s] >= 2
    /\ stepUsage[s].tokens > 0
    /\ stepUsage[s].cost > 0
    /\ totalUsage.tokens >= stepUsage[s].tokens

\* C33: a step without dependencies starts from exactly spec.initial,
\* whatever value the caller supplied and whatever the other steps have
\* written by then.
C33_Original ==
  \A s \in Launched :
    (/\ StepOf(s).dependsOn = <<>>
     /\ pc[s] \notin {"idle", "deps"})
    => startData[s] = spec.initial

\* C35 as stated: a step that succeeded after at least one iteration
\* passed its last budget check with the global usage within every ceiling
\* the caller set.  The step calls no tool after that check and the global
\* totals include its own, so its own accumulated usage is within every
\* ceiling too.
C35_Original ==
  \A s \in StepNames :
    (ResultOf(s).success /\ ResultOf(s).iterations >= 1) =>
      ~Over(spec.budget, stepUsage[s])

\* the steps that incremented `running` and whose release timer has not
\* fired yet
Holders == {s \in StepNames : pc[s] = "slot_held"}

\* C40: the counter of held slots stays between 0 and the concurrency
\* ceiling, and counts exactly the steps that acquired a slot and have not
\* released it: no slot is released twice or never.
C40_SlotsBounded ==
  /\ 0 <= running
  /\ running <= concurrencySlots
  /\ running = Cardinality(Holders)
  /\ execPc = "returned" => running = 0

\* every slot is held while another step polls for one, after the holder
\* has acquired and released a slot before
C40_Witness ==
  \E s, t \in StepNames :
    /\ running = concurrencySlots
    /\ pc[s] = "slot_held"
    /\ iteration[s] >= 2
    /\ pc[t] = "slot_poll"

\* the outputs of the steps of the first execution, as each step had them
\* when it settled, and the seed of the first execution
OwnData ==
  [k \in DataKeys |->
     IF k \in Launched /\ pc[k] = "settled" THEN currentData[k]
     ELSE IF k = SeedKey THEN spec.initial ELSE UndefData]

\* C36 as stated: with a second execute() started on the instance while
\* the first is in flight, every step of the first execution still starts
\* from the seed or the outputs of the first execution, and the Result of
\* the first execution carries the data of its own last successful step.
C36_Original ==
  /\ \A s \in Launched :
       pc[s] \notin {"idle", "deps"} =>
         startData[s] =
           IF StepOf(s).dependsOn = <<>> THEN InitialOrEmpty(spec.initial)
           ELSE MergeDeps(StepOf(s).dependsOn, OwnData, EmptyObj)
  /\ execPc = "returned" =>
       result.data = getFinalData(result.steps, OwnData)

\* C37 as stated: topoSort throws the cycle error only for a list whose
\* dependsOn relation has a cycle, and sorts every list without a cycle
\* and without unknown names, two steps of the same name included.
C37_Original ==
  /\ (execPc = "threw" /\ execError = CircularDependency) => HasCycle
  /\ (execPc \in {"sorted", "threw"} /\ ~HasCycle /\ ~HasUnknown) =>
       execPc = "sorted"

\* C34: a logger finalizes and prints its event at most once, whatever
\* emit() and emitAlways() calls it receives; once it has emitted, no call
\* prints or changes the event's totals again; and the first emit() of an
\* event whose outcome is not 'success' prints it.
C34_OneWideEvent ==
  /\ [](emission.printed <= 1 /\ emission.finalized <= 1)
  /\ [][emitted => (emission' = emission /\ emitted')]_vars
  /\ [][(/\ ~emitted /\ emitted'
         /\ event.execution.present
         /\ event.execution.outcome # "success")
        => emission'.printed = emission.printed + 1]_vars

\* an event with the outcome 'error' and two steps has been printed once,
\* by a call made while DAFT_ALWAYS_EMIT was not set
C34_Witness ==
  /\ emitted
  /\ ~alwaysEmit
  /\ event.execution.present
  /\ event.execution.outcome = "error"
  /\ event.execution.total_iterations >= 2
  /\ emission = [finalized |-> 1, printed |-> 1]

\* C39 as stated: a CLI whose try block failed before setExecutionMode was
\* called ends with the error recorded on the logger, the wide event
\* printed and the exit code 1, its catch block having thrown nothing.
C39_Original ==
  (/\ cli.fault \in {"load", "shape", "validate", "redis"}
   /\ cli.pc \notin {"try", "catch"})
  => /\ cli.pc = "exited"
     /\ cli.exitCode = 1
     /\ event.error
     /\ emission.printed = 1

\* the records of job i in daft:results and daft:errors
Records(i) ==
  Cardinality({k \in DOMAIN redis.results : redis.results[k] = i})
  + Cardinality({k \in DOMAIN redis.errors : redis.errors[k] = i})

\* the jobs appended after the worker sent its first xRead: while it was
\* blocked in a read or busy with an earlier job
WhileRunning(i) ==
  i <= redis.last
  /\ redis.during[i] \in {"blocked", "processing", "record", "delete"}

\* C38 as stated: every job appended to daft:jobs while the worker runs,
\* also while it is busy with an earlier job, is eventually read and ends
\* with exactly one record in daft:results or daft:errors and no entry in
\* daft:jobs; and a job is deleted only with its one record written.
C38_Original ==
  /\ [](\A i \in 1..MaxJobs :
          (WhileRunning(i) /\ \A m \in redis.jobs : m.id # i) =>
            Records(i) = 1)
  /\ \A i \in 1..MaxJobs :
       WhileRunning(i) ~>
         (Records(i) = 1 /\ \A m \in redis.jobs : m.id # i)
====
